---- MODULE Spec2Model ----
(***************************************************************************)
(* Room lifecycle, membership and event routing of the chat relay.        *)
(*   src/server.js         universal join-room (auto-creating) variant     *)
(*   src/unnamed/part_001  strict variant: create-*-room + join-room       *)
(* One step of the model is one handler run to completion (Node's event    *)
(* loop runs each socket.io handler without preemption).                   *)
(***************************************************************************)
EXTENDS Naturals, FiniteSets, Sequences, Bags

(* ---------------------------- bounds ----------------------------------- *)
\* number of connections the transport accepts during a run
MaxConns == 3
\* number of inbound events (connects and uploads included) handled during a run
MaxEvents == 6

(* ---------------------------- value sets -------------------------------- *)
\* JS undefined: an unset socket.data.username, a missing activeRooms entry,
\* a payload field that is not part of the emitted object.
Undefined == "undefined"

\* socket ids, in the order the transport hands them out
ConnIds == <<"c1", "c2", "c3", "c4", "c5">>
Conns == {ConnIds[i] : i \in 1..MaxConns}

\* room ids clients agree on out of band / nanoid(8) results
NamedRooms == {"abc123", "solo"}
\* a room id is any string, a socket id included
RoomIds == NamedRooms \cup Conns

Kinds == {"private", "group"}
Names == {"alice", "bob"}
\* the display names a connection asks for: the second connection to arrive may
\* use every name (and so change its name from join to join), the others keep
\* to one
NamesOf(c) ==
    IF c = ConnIds[2] THEN Names
    ELSE IF c \in {ConnIds[1], ConnIds[4]} THEN {"alice"} ELSE {"bob"}
Messages == {"hi"}
MessageIds == {"m1"}
TypingFlags == {"true", "false"}

\* the stored names of the uploads of a run, in order (Date.now() + '-' +
\* originalname), and the path each is served under
FileNames == <<"1-a.png", "2-a.png">>
FilePaths == <<"/uploads/1-a.png", "/uploads/2-a.png">>
OriginalName == "a.png"
MimeType == "image/png"
FileSize == "1024"
TempIds == {"t1"}
\* senderName of a file whose uploader is no longer connected
Placeholder == "A user"
\* HTTP statuses of POST /upload
Statuses == {"200", "400", "500"}

VARIABLES
    strict,       \* deployment: FALSE = src/server.js, TRUE = src/unnamed/part_001
    nconn,        \* how many socket ids the transport has handed out
    sockets,      \* io.sockets.sockets: ids of the live connections
    rooms,        \* io.sockets.adapter.rooms: room id -> set of member socket ids
    activeRooms,  \* activeRooms: room id -> the type of its entry, Undefined without entry
    username,     \* socket.data.username of each connection
    events,       \* inbound events handled so far
    last,         \* the inbound event the last handler run was for
    sent,         \* bag of deliveries the last handler run produced
    heard,        \* history: <<a, b, r>> when a got a user-joined for b's current
                  \* stay in room r
    joined,       \* history: <<c, r, kind, name>> when live connection c got
                  \* join-success or room-created for room r, with the kind r had
                  \* then and the display name of its latest such join of r
    timers,       \* bag of file names with a pending setTimeout deletion
    unlinks       \* bag of file names fs.unlink was called for

vars == <<strict, nconn, sockets, rooms, activeRooms, username, events, last, sent,
          heard, joined, timers, unlinks>>

(* ---------------------------- payloads ---------------------------------- *)
\* An outbound payload, as the receiver reads it: a field the emitted object
\* does not have reads as undefined.  A bare payload (a username, a room id, a
\* message id) is the one field of that name.
Blank ==
    [roomId |-> Undefined, username |-> Undefined, existingType |-> Undefined,
     attemptedType |-> Undefined, message |-> Undefined, messageId |-> Undefined,
     senderId |-> Undefined, senderName |-> Undefined, isTyping |-> Undefined,
     filename |-> Undefined, originalname |-> Undefined, mimetype |-> Undefined,
     size |-> Undefined, path |-> Undefined, tempId |-> Undefined]

\* An inbound event, in the same way.
NoEvent ==
    [op |-> "none", conn |-> Undefined, roomId |-> Undefined, username |-> Undefined,
     roomType |-> Undefined, message |-> Undefined, messageId |-> Undefined,
     isTyping |-> Undefined, senderId |-> Undefined, tempId |-> Undefined,
     status |-> Undefined, filename |-> Undefined]

\* one emit to a set of recipients: each recipient gets the packet once
Emit(recipients, ev, data) ==
    SetToBag({[to |-> x, ev |-> ev, data |-> data] : x \in recipients})

\* socket.to(roomId): the members of the room except the emitting socket
SocketToAll(c, roomId) == rooms[roomId]

SocketTo(c, roomId) == rooms[roomId] \ {c}

\* io.to(roomId): every member of the room
IoTo(roomId) == rooms[roomId]

\* socket.emit: the emitting socket alone
SocketEveryone(c) == sockets

SocketSelf(c) == {c}

\* how many copies of event ev (any payload) connection x got in bag b
Received(b, x, ev) ==
    LET ds == {d \in BagToSet(b) : d.to = x /\ d.ev = ev}
        RECURSIVE Sum(_)
        Sum(S) == IF S = {} THEN 0
                  ELSE LET d == CHOOSE e \in S : TRUE
                       IN CopiesIn(d, b) + Sum(S \ {d})
    IN Sum(ds)

(* ---------------------------- initial state ----------------------------- *)
Init ==
    /\ strict \in BOOLEAN
    /\ nconn = 0
    /\ sockets = {}
    /\ rooms = [r \in RoomIds |-> {}]
    /\ activeRooms = [r \in RoomIds |-> Undefined]
    /\ username = [c \in Conns |-> Undefined]
    /\ events = 0
    /\ last = NoEvent
    /\ sent = EmptyBag
    /\ heard = {}
    /\ joined = {}
    /\ timers = EmptyBag
    /\ unlinks = EmptyBag

\* Socket ids that clients get to know and pass as room ids (every chat-message
\* carries its sender's id): the id of the first connection to arrive.
LeakedIds == {ConnIds[1]}

\* room ids a client can name: the agreed ones and leaked ids already handed out
KnownRoomIds == NamedRooms \cup (LeakedIds \cap {ConnIds[i] : i \in 1..nconn})

(* ---------------------------- connection -------------------------------- *)
\* io.on('connection'): the transport registers the socket and joins it to the
\* room named by its own id.
Connect ==
    /\ events < MaxEvents
    /\ nconn < MaxConns
    /\ LET c == ConnIds[nconn + 1]
       IN /\ nconn' = nconn + 1
          /\ sockets' = sockets \cup {c}
          /\ rooms' = [rooms EXCEPT ![c] = {c}]
          /\ last' = [NoEvent EXCEPT !.op = "connection", !.conn = c]
    /\ sent' = EmptyBag
    /\ events' = events + 1
    /\ UNCHANGED <<strict, activeRooms, username, heard, joined, timers, unlinks>>

(* ---------------------------- join-room (server.js) --------------------- *)
\* server.js:83
TypeMismatchNever(roomData, roomType) == FALSE

TypeMismatch(roomData, roomType) == roomData # roomType

\* server.js:89  (room && room.size >= 2: an absent room has no members)
RoomFullAtThree(roomData, room) == roomData = "private" /\ Cardinality(room) >= 3

RoomFull(roomData, room) == roomData = "private" /\ Cardinality(room) >= 2

\* server.js:101-104, part_001:112-115
AdmitKeepsName(c, roomId, uname) ==
    /\ username' = IF username[c] = Undefined THEN [username EXCEPT ![c] = uname]
                   ELSE username
    /\ rooms' = [rooms EXCEPT ![roomId] = @ \cup {c}]
    /\ sent' = Emit(SocketTo(c, roomId), "user-joined", [Blank EXCEPT !.username = uname])
               (+) Emit(SocketSelf(c), "join-success", [Blank EXCEPT !.roomId = roomId])
    /\ heard' = heard \cup {<<a, c, roomId>> : a \in SocketTo(c, roomId)}
    /\ joined' = {t \in joined : ~(t[1] = c /\ t[2] = roomId)}
                  \cup {<<c, roomId, activeRooms'[roomId], uname>>}

AdmitSilent(c, roomId, uname) ==
    /\ username' = [username EXCEPT ![c] = uname]
    /\ rooms' = [rooms EXCEPT ![roomId] = @ \cup {c}]
    /\ sent' = Emit(SocketSelf(c), "join-success", [Blank EXCEPT !.roomId = roomId])
    /\ heard' = heard
    /\ joined' = {t \in joined : ~(t[1] = c /\ t[2] = roomId)}
                  \cup {<<c, roomId, activeRooms'[roomId], uname>>}

Admit(c, roomId, uname) ==
    /\ username' = [username EXCEPT ![c] = uname]
    /\ rooms' = [rooms EXCEPT ![roomId] = @ \cup {c}]
    /\ sent' = Emit(SocketTo(c, roomId), "user-joined", [Blank EXCEPT !.username = uname])
               (+) Emit(SocketSelf(c), "join-success", [Blank EXCEPT !.roomId = roomId])
    /\ heard' = heard \cup {<<a, c, roomId>> : a \in SocketTo(c, roomId)}
    /\ joined' = {t \in joined : ~(t[1] = c /\ t[2] = roomId)}
                  \cup {<<c, roomId, activeRooms'[roomId], uname>>}

JoinRoom(c, roomId, uname, roomType) ==
    /\ ~strict
    /\ events < MaxEvents
    /\ c \in sockets
    /\ last' = [NoEvent EXCEPT !.op = "join-room", !.conn = c, !.roomId = roomId,
                               !.username = uname, !.roomType = roomType]
    /\ events' = events + 1
    /\ LET roomData == activeRooms[roomId]
           room == rooms[roomId]
       IN IF roomData # Undefined /\ TypeMismatch(roomData, roomType)
          THEN /\ sent' = Emit(SocketSelf(c), "room-type-mismatch",
                               [Blank EXCEPT !.existingType = roomData,
                                             !.attemptedType = roomType])
               /\ UNCHANGED <<rooms, activeRooms, username, heard, joined>>
          ELSE IF roomData # Undefined /\ RoomFull(roomData, room)
          THEN /\ sent' = Emit(SocketSelf(c), "room-full", Blank)
               /\ UNCHANGED <<rooms, activeRooms, username, heard, joined>>
          ELSE /\ activeRooms' = IF roomData = Undefined
                                 THEN [activeRooms EXCEPT ![roomId] = roomType]
                                 ELSE activeRooms
               /\ Admit(c, roomId, uname)
    /\ UNCHANGED <<strict, nconn, sockets, timers, unlinks>>

(* ---------------------------- strict variant (part_001) ---------------- *)
\* nanoid(8): a generated id; collision-resistant, so one that names no room yet
FreshRoomIds == {r \in NamedRooms : activeRooms[r] = Undefined /\ rooms[r] = {}}

\* part_001:72-79 createRoom, called by create-private-room / create-group-room
CreateRoom(c, uname, roomType) ==
    /\ strict
    /\ events < MaxEvents
    /\ c \in sockets
    /\ \E roomId \in FreshRoomIds :
          /\ activeRooms' = [activeRooms EXCEPT ![roomId] = roomType]
          /\ username' = [username EXCEPT ![c] = uname]
          /\ rooms' = [rooms EXCEPT ![roomId] = @ \cup {c}]
          /\ sent' = Emit(SocketSelf(c), "room-created", [Blank EXCEPT !.roomId = roomId])
          /\ joined' = joined \cup {<<c, roomId, roomType, uname>>}
          /\ UNCHANGED heard
    /\ last' = [NoEvent EXCEPT !.op = IF roomType = "private" THEN "create-private-room"
                                      ELSE "create-group-room",
                               !.conn = c, !.username = uname]
    /\ events' = events + 1
    /\ UNCHANGED <<strict, nconn, sockets, timers, unlinks>>

\* part_001:99  (!roomData)
NotFoundNever(roomData) == FALSE

NotFound(roomData) == roomData = Undefined

\* part_001:96-116
JoinRoomStrict(c, roomId, uname) ==
    /\ strict
    /\ events < MaxEvents
    /\ c \in sockets
    /\ last' = [NoEvent EXCEPT !.op = "join-room", !.conn = c, !.roomId = roomId,
                               !.username = uname]
    /\ events' = events + 1
    /\ LET roomData == activeRooms[roomId]
           room == rooms[roomId]
       IN IF NotFound(roomData)
          THEN /\ sent' = Emit(SocketSelf(c), "room-not-found", Blank)
               /\ UNCHANGED <<rooms, activeRooms, username, heard, joined>>
          ELSE IF RoomFull(roomData, room)
          THEN /\ sent' = Emit(SocketSelf(c), "room-full", Blank)
               /\ UNCHANGED <<rooms, activeRooms, username, heard, joined>>
          ELSE /\ UNCHANGED activeRooms
               /\ Admit(c, roomId, uname)
    /\ UNCHANGED <<strict, nconn, sockets, timers, unlinks>>

(* ---------------------------- messaging --------------------------------- *)
\* server.js:108-114, part_001:119-125
ChatPayloadNoName(c, message, messageId) ==
    [Blank EXCEPT !.message = message, !.messageId = messageId, !.senderId = c]

ChatPayload(c, message, messageId) ==
    [Blank EXCEPT !.message = message, !.messageId = messageId,
                  !.senderId = c, !.senderName = username[c]]

ChatMessage(c, roomId, message, messageId) ==
    /\ events < MaxEvents
    /\ c \in sockets
    /\ sent' = Emit(SocketTo(c, roomId), "chat-message", ChatPayload(c, message, messageId))
    /\ last' = [NoEvent EXCEPT !.op = "chat-message", !.conn = c, !.roomId = roomId,
                               !.message = message, !.messageId = messageId]
    /\ events' = events + 1
    /\ UNCHANGED <<strict, nconn, sockets, rooms, activeRooms, username, heard, joined,
                   timers, unlinks>>

\* server.js:116-118, part_001:127-129
ReceiptPayloadSigned(c, messageId) ==
    [Blank EXCEPT !.messageId = messageId, !.senderId = c, !.senderName = username[c]]

ReceiptPayload(c, messageId) == [Blank EXCEPT !.messageId = messageId]

MessageSeen(c, roomId, messageId) ==
    /\ events < MaxEvents
    /\ c \in sockets
    /\ sent' = Emit(SocketTo(c, roomId), "read-receipt", ReceiptPayload(c, messageId))
    /\ last' = [NoEvent EXCEPT !.op = "message-seen", !.conn = c, !.roomId = roomId,
                               !.messageId = messageId]
    /\ events' = events + 1
    /\ UNCHANGED <<strict, nconn, sockets, rooms, activeRooms, username, heard, joined,
                   timers, unlinks>>

\* server.js:120-122, part_001:131-133
TypingPayload(c, isTyping) ==
    [Blank EXCEPT !.senderName = username[c], !.isTyping = isTyping]

Typing(c, roomId, isTyping) ==
    /\ events < MaxEvents
    /\ c \in sockets
    /\ sent' = Emit(SocketTo(c, roomId), "typing", TypingPayload(c, isTyping))
    /\ last' = [NoEvent EXCEPT !.op = "typing", !.conn = c, !.roomId = roomId,
                               !.isTyping = isTyping]
    /\ events' = events + 1
    /\ UNCHANGED <<strict, nconn, sockets, rooms, activeRooms, username, heard, joined,
                   timers, unlinks>>

(* ---------------------------- disconnect -------------------------------- *)
\* server.js:126-127: the rooms the handler's loop body runs for
SweptRooms(c) == {r \in RoomIds : c \in rooms[r] /\ r # c}

\* server.js:129-130: roomAdapter && roomAdapter.size === 1
LastMemberAlways(room) == TRUE

LastMember(room) == Cardinality(room) = 1

\* server.js:128: one emit per swept room
RECURSIVE UserLeft(_, _)
UserLeft(c, rs) ==
    IF rs = {} THEN EmptyBag
    ELSE LET r == CHOOSE x \in rs : TRUE
         IN Emit(SocketTo(c, r), "user-left", [Blank EXCEPT !.username = username[c]])
            (+) UserLeft(c, rs \ {r})

\* 'disconnecting' handler (server.js:124-136, part_001:136-152), then the
\* transport's teardown: the socket leaves every room and the registry.
Disconnect(c) ==
    /\ events < MaxEvents
    /\ c \in sockets
    /\ sent' = UserLeft(c, SweptRooms(c))
    /\ activeRooms' = [r \in RoomIds |->
                          IF r \in SweptRooms(c) /\ LastMember(rooms[r])
                          THEN Undefined ELSE activeRooms[r]]
    /\ rooms' = [r \in RoomIds |-> rooms[r] \ {c}]
    /\ sockets' = sockets \ {c}
    /\ username' = [username EXCEPT ![c] = Undefined]
    /\ heard' = {h \in heard : h[1] # c /\ h[2] # c}
    /\ joined' = {t \in joined : t[1] # c}
    /\ last' = [NoEvent EXCEPT !.op = "disconnecting", !.conn = c]
    /\ events' = events + 1
    /\ UNCHANGED <<strict, nconn, timers, unlinks>>

(* ---------------------------- POST /upload ------------------------------ *)
\* files stored so far
Stored == BagToSet(timers) \cup BagToSet(unlinks)

\* server.js:53-54
SenderName(senderId) ==
    IF senderId \in sockets THEN username[senderId] ELSE Placeholder

\* server.js:43-55
FilePayload(k, senderId, tempId) ==
    [Blank EXCEPT !.filename = FileNames[k], !.originalname = OriginalName,
                  !.mimetype = MimeType, !.size = FileSize, !.path = FilePaths[k],
                  !.senderId = senderId, !.senderName = SenderName(senderId),
                  !.tempId = tempId]

\* server.js:59-64: setTimeout schedules one deletion of the stored file
ScheduledNot(f) == timers

Scheduled(f) == timers (+) SetToBag({f})

\* server.js:38-68 (part_001:39-69).  status 500: multer reports an error;
\* 400: the request has no file; 200: the file is stored.  roomId Undefined: the
\* form has no roomId field.
Upload(status, roomId, senderId, tempId) ==
    /\ events < MaxEvents
    /\ events' = events + 1
    /\ IF status # "200"
       THEN /\ last' = [NoEvent EXCEPT !.op = "upload", !.status = status]
            /\ sent' = EmptyBag
            /\ UNCHANGED <<timers, unlinks>>
       ELSE /\ Cardinality(Stored) < Len(FileNames)
            /\ LET k == Cardinality(Stored) + 1
               IN /\ last' = [NoEvent EXCEPT !.op = "upload", !.status = status,
                                            !.roomId = roomId, !.senderId = senderId,
                                            !.tempId = tempId, !.filename = FileNames[k]]
                  /\ sent' = IF roomId # Undefined
                             THEN Emit(IoTo(roomId), "file-shared",
                                       FilePayload(k, senderId, tempId))
                             ELSE EmptyBag
                  /\ timers' = Scheduled(FileNames[k])
            /\ UNCHANGED unlinks
    /\ UNCHANGED <<strict, nconn, sockets, rooms, activeRooms, username, heard, joined>>

\* server.js:59-64: the setTimeout callback of one stored file
DeleteFile(f) ==
    /\ BagIn(f, timers)
    /\ timers' = timers (-) SetToBag({f})
    /\ unlinks' = unlinks (+) SetToBag({f})
    /\ last' = [NoEvent EXCEPT !.op = "timeout", !.filename = f]
    /\ sent' = EmptyBag
    /\ UNCHANGED <<strict, nconn, sockets, rooms, activeRooms, username, events,
                   heard, joined>>

\* socket ids handed out so far, live or gone
SeenConns == {ConnIds[i] : i \in 1..nconn}

Next ==
    \/ Connect
    \/ \E c \in Conns, r \in KnownRoomIds, t \in Kinds :
          \E u \in NamesOf(c) : JoinRoom(c, r, u, t)
    \/ \E c \in Conns, t \in Kinds : \E u \in NamesOf(c) : CreateRoom(c, u, t)
    \/ \E c \in Conns, r \in KnownRoomIds : \E u \in NamesOf(c) : JoinRoomStrict(c, r, u)
    \/ \E c \in Conns, r \in KnownRoomIds, m \in Messages, i \in MessageIds :
          ChatMessage(c, r, m, i)
    \/ \E c \in Conns, r \in KnownRoomIds, i \in MessageIds : MessageSeen(c, r, i)
    \/ \E c \in Conns, r \in KnownRoomIds, f \in TypingFlags : Typing(c, r, f)
    \/ \E c \in Conns : Disconnect(c)
    \/ \E r \in KnownRoomIds \cup {Undefined}, c \in SeenConns, t \in TempIds :
          Upload("200", r, c, t)
    \/ \E st \in Statuses \ {"200"} : Upload(st, Undefined, Undefined, Undefined)
    \/ \E f \in BagToSet(timers) : DeleteFile(f)

Spec == Init /\ [][Next]_vars

\* Node runs the callback of every timer that was set: a pending deletion is
\* not postponed forever.
FairSpec == Spec /\ \A i \in 1..Len(FileNames) : WF_vars(DeleteFile(FileNames[i]))

(* ======================= properties ===================================== *)
\* one delivery
Delivery(x, ev, data) == [to |-> x, ev |-> ev, data |-> data]

\* the bag with exactly one copy of each delivery of set D
Once(D) == [d \in D |-> 1]

\* the last step ran the join-room handler of server.js
JoinedUniversal == ~strict /\ last.op = "join-room"

(* ---- C1 ---------------------------------------------------------------- *)
\* C1: between handlers a room id has a Directory entry exactly when a live
\* connection is a member of it, for every room id a client may pass to
\* join-room.  Stated in the form that does not depend on whether a socket
\* counts as a member of the room named by its own id: an entry needs a live
\* member, and a member other than the id's own socket needs an entry.
C1_DirectoryIffMember ==
    \A r \in RoomIds :
        /\ activeRooms[r] # Undefined => (rooms[r] \cap sockets) # {}
        /\ ((rooms[r] \cap sockets) \ {r}) # {} => activeRooms[r] # Undefined

(* ---- C9 ---------------------------------------------------------------- *)
\* C9: the room named by a connection's own id is never treated as a joinable
\* room: it never gets a Directory entry and never a member other than its owner.
C9_PseudoRoomNeverJoinable ==
    \A c \in Conns : activeRooms[c] = Undefined /\ rooms[c] \subseteq {c}

(* ---- C2 ---------------------------------------------------------------- *)
\* C2: the first join-room on an unregistered room id registers it with the
\* requested kind; while it stays registered a join-room with another roomType
\* is answered with room-type-mismatch {existingType, attemptedType} and leaves
\* the room's members and its kind as they were; no step changes the kind of a
\* room that stays registered.
C2_KindFixedByFirstJoin ==
    [][ /\ JoinedUniversal' =>
            LET r == last'.roomId
                t == last'.roomType
                c == last'.conn
            IN /\ activeRooms[r] = Undefined => activeRooms'[r] = t
               /\ (activeRooms[r] # Undefined /\ activeRooms[r] # t) =>
                     /\ sent' = Once({Delivery(c, "room-type-mismatch",
                                        [Blank EXCEPT !.existingType = activeRooms[r],
                                                      !.attemptedType = t])})
                     /\ rooms' = rooms
                     /\ activeRooms' = activeRooms
        /\ \A r \in RoomIds :
              activeRooms[r] # Undefined => activeRooms'[r] \in {activeRooms[r], Undefined}
      ]_vars

\* a join-room asking for another kind than the registered one was just rejected
C2_Witness ==
    /\ JoinedUniversal
    /\ activeRooms[last.roomId] \notin {Undefined, last.roomType}
    /\ rooms[last.roomId] # {}
    /\ \E d \in BagToSet(sent) : d.ev = "room-type-mismatch" /\ d.to = last.conn

(* ---- C3 ---------------------------------------------------------------- *)
\* a join-room that asks for a private room (server.js: roomType private; the
\* strict variant has no roomType) and finds it registered private
AsksPrivate ==
    /\ last.op = "join-room"
    /\ strict \/ last.roomType = "private"

\* C3: a room registered as private never has more than 2 members, and a
\* join-room asking for a private room that has 2 members is answered with
\* room-full to the requester while the member set stays exactly as it was.
C3_PrivateAtMostTwo ==
    /\ [](\A r \in RoomIds : activeRooms[r] = "private" => Cardinality(rooms[r]) <= 2)
    /\ [][ (/\ AsksPrivate'
            /\ activeRooms[last'.roomId] = "private"
            /\ Cardinality(rooms[last'.roomId]) = 2) =>
               /\ sent' = Once({Delivery(last'.conn, "room-full", Blank)})
               /\ rooms' = rooms
         ]_vars

\* a third connection was just refused by a private room that keeps its 2 members
C3_Witness ==
    /\ AsksPrivate
    /\ activeRooms[last.roomId] = "private"
    /\ Cardinality(rooms[last.roomId]) = 2
    /\ last.conn \notin rooms[last.roomId]
    /\ sent = Once({Delivery(last.conn, "room-full", Blank)})

(* ---- C4 ---------------------------------------------------------------- *)
\* the rejection the join-room in last' must get in the state before it:
\* Undefined when it is to be admitted
Rejection(e) ==
    LET kind == activeRooms[e.roomId]
        full == kind = "private" /\ Cardinality(rooms[e.roomId]) >= 2
    IN IF strict
       THEN IF kind = Undefined THEN "room-not-found"
            ELSE IF full THEN "room-full" ELSE Undefined
       ELSE IF kind = Undefined THEN Undefined
            ELSE IF kind # e.roomType THEN "room-type-mismatch"
            ELSE IF full THEN "room-full" ELSE Undefined

\* C4: a rejected join-room (room-type-mismatch, room-full, room-not-found in
\* the strict variant) emits exactly one event, to the requester only, and
\* changes no state: Directory, member sets, live connections and every display
\* name, the requester's included, stay as they were.
C4_RejectionChangesNothing ==
    [][ (last'.op = "join-room" /\ Rejection(last') # Undefined) =>
            /\ \A d \in BagToSet(sent') : d.to = last'.conn /\ d.ev = Rejection(last')
            /\ BagCardinality(sent') = 1
            /\ activeRooms' = activeRooms
            /\ rooms' = rooms
            /\ username' = username
            /\ sockets' = sockets
      ]_vars

\* a join-room was just rejected while some other connection is live and the
\* requester asked for a display name it does not have
C4_Witness ==
    /\ last.op = "join-room"
    /\ \E d \in BagToSet(sent) :
          d.ev \in {"room-type-mismatch", "room-full", "room-not-found"}
    /\ sockets \ {last.conn} # {}
    /\ username[last.conn] # last.username

(* ---- C5 ---------------------------------------------------------------- *)
\* the join-room in last' is admitted from the state before it
Admitted(e) == e.op = "join-room" /\ Rejection(e) = Undefined

\* the user-joined deliveries of a bag
UserJoined(b) == {d \in BagToSet(b) : d.ev = "user-joined"}

\* what every accepted join-room of connection b on room r delivers: one
\* user-joined with the requested username to each member of r other than b,
\* none to b, and join-success(r) to b alone
JoinBroadcast ==
    LET b == last'.conn
        r == last'.roomId
    IN sent' = Once({Delivery(a, "user-joined", [Blank EXCEPT !.username = last'.username])
                        : a \in rooms[r] \ {b}}
                    \cup {Delivery(b, "join-success", [Blank EXCEPT !.roomId = r])})

\* C5: each join-room by B on room r delivers exactly one user-joined with B's
\* username to every connection that was a member of r, none to B, and
\* join-success(r) to B alone; and over any sequence of events a member A gets
\* exactly one user-joined for one stay of B in the room (never a second one
\* while B has not left).
C5_OneUserJoinedPerPresence ==
    [][ Admitted(last') =>
            /\ JoinBroadcast
            /\ \A d \in UserJoined(sent') : <<d.to, last'.conn, last'.roomId>> \notin heard
      ]_vars

(* ---- C6 ---------------------------------------------------------------- *)
\* C6: a chat-message of connection Y to room r is never delivered to Y; every
\* other current member of r gets it exactly once, as {message, messageId,
\* senderId: Y's id, senderName: Y's display name} with message and messageId
\* as sent; nobody else gets anything.
C6_ChatExcludesSender ==
    [][ last'.op = "chat-message" =>
            LET y == last'.conn
                payload == [Blank EXCEPT !.message = last'.message,
                                         !.messageId = last'.messageId,
                                         !.senderId = y,
                                         !.senderName = username[y]]
            IN sent' = Once({Delivery(x, "chat-message", payload)
                                : x \in rooms[last'.roomId] \ {y}})
      ]_vars

\* a member with a display name just sent a chat-message to a room with
\* another member, who got it
C6_Witness ==
    /\ last.op = "chat-message"
    /\ last.conn \in rooms[last.roomId]
    /\ username[last.conn] # Undefined
    /\ \E d \in BagToSet(sent) : d.to # last.conn /\ d.data.senderId = last.conn

(* ---- C7 ---------------------------------------------------------------- *)
\* C7: a message-seen of connection C for room r yields a read-receipt for the
\* members of r other than C, once each, whose payload is the acknowledged
\* message id and nothing else: neither C's connection id nor C's display name.
C7_ReceiptCarriesOnlyMessageId ==
    [][ last'.op = "message-seen" =>
            /\ sent' = Once({Delivery(x, "read-receipt",
                                      [Blank EXCEPT !.messageId = last'.messageId])
                                : x \in rooms[last'.roomId] \ {last'.conn}})
            /\ \A d \in BagToSet(sent') :
                  /\ d.data.senderId = Undefined
                  /\ d.data.senderName = Undefined
                  /\ d.data.username = Undefined
      ]_vars

\* a member with a display name just acknowledged a message and another member
\* got the read-receipt
C7_Witness ==
    /\ last.op = "message-seen"
    /\ username[last.conn] # Undefined
    /\ \E d \in BagToSet(sent) : d.ev = "read-receipt" /\ d.to # last.conn

(* ---- C8 ---------------------------------------------------------------- *)
\* C8: when connection X disconnects, for every room X belongs to other than
\* the one named by its own id, each remaining member gets exactly one
\* user-left carrying X's display name (the audience is the membership before
\* X leaves); a room with two or more members stays registered with its kind;
\* a room whose sole member is X yields no user-left and loses its entry.
C8_DisconnectSweep ==
    [][ last'.op = "disconnecting" =>
            LET x == last'.conn
                swept == {r \in RoomIds \ {x} : x \in rooms[r]}
            IN /\ \A d \in BagToSet(sent') :
                     /\ d.ev = "user-left"
                     /\ d.data = [Blank EXCEPT !.username = username[x]]
                     /\ d.to # x
               /\ \A a \in Conns \ {x} :
                     Received(sent', a, "user-left")
                        = Cardinality({r \in swept : a \in rooms[r]})
               /\ \A r \in swept :
                     /\ activeRooms[r] # Undefined
                     /\ IF Cardinality(rooms[r]) >= 2
                        THEN activeRooms'[r] = activeRooms[r]
                        ELSE activeRooms'[r] = Undefined
      ]_vars

\* a connection just disconnected from a room it shared: the other member got
\* user-left and the room is still registered
C8_Witness ==
    /\ last.op = "disconnecting"
    /\ \E d \in BagToSet(sent) :
          /\ d.ev = "user-left"
          /\ d.data.username # Undefined
          /\ \E r \in NamedRooms : d.to \in rooms[r] /\ activeRooms[r] # Undefined

(* ---- C10 --------------------------------------------------------------- *)
\* C10: every outbound chat-message, typing and read-receipt event is stamped
\* with both senderId and senderName of the emitting connection.
C10_AllStamped ==
    \A d \in BagToSet(sent) :
        d.ev \in {"chat-message", "typing", "read-receipt"} =>
            /\ d.data.senderId = last.conn
            /\ d.data.senderName = username[last.conn]

\* C10 as amended: a chat-message carries the emitting connection's id as
\* senderId and its display name as senderName; a typing event carries the
\* display name as senderName and no senderId; a read-receipt carries neither.
\* The display name is the one the connection has when the event is emitted,
\* undefined while it has joined no room.
C10_StampedPerEvent ==
    \A d \in BagToSet(sent) :
        /\ d.ev = "chat-message" =>
              d.data.senderId = last.conn /\ d.data.senderName = username[last.conn]
        /\ d.ev = "typing" =>
              d.data.senderId = Undefined /\ d.data.senderName = username[last.conn]
        /\ d.ev = "read-receipt" =>
              d.data.senderId = Undefined /\ d.data.senderName = Undefined

\* a chat-message of a named connection was just delivered to another member
C10_Witness ==
    /\ last.op = "chat-message"
    /\ username[last.conn] \in Names
    /\ \E d \in BagToSet(sent) : d.ev = "chat-message" /\ d.data.senderName \in Names

(* ---- C11 --------------------------------------------------------------- *)
\* the step to last' sets the display name of its connection: an accepted
\* join-room or a create-*-room
SetsName(e) ==
    \/ Admitted(e)
    \/ e.op \in {"create-private-room", "create-group-room"}

\* C11: the senderName of an outbound event is the display name the emitting
\* connection has when the event is dispatched: an accepted join-room replaces
\* the name by the requested one, nothing else changes the name of a live
\* connection, and every chat-message and typing event of connection C, to
\* whichever room, and C's user-left carry C's current name, never the name an
\* earlier join of that room was made under.
C11_NameAtDispatch ==
    [][ LET c == last'.conn
            stale == {t[4] : t \in {j \in joined : j[1] = c}} \ {username[c]}
        IN /\ SetsName(last') => username'[c] = last'.username
           /\ \A x \in sockets' :
                 ~(SetsName(last') /\ x = c) => username'[x] = username[x]
           /\ last'.op \in {"chat-message", "typing"} =>
                 \A d \in BagToSet(sent') :
                    d.data.senderName = username[c] /\ d.data.senderName \notin stale
           /\ last'.op = "disconnecting" =>
                 \A d \in BagToSet(sent') :
                    d.data.username = username[c] /\ d.data.username \notin stale
      ]_vars

\* a connection that joined one room under one name and later another room
\* under another name just sent a chat-message to the first room, and a member
\* got it under the new name
C11_Witness ==
    /\ last.op = "chat-message"
    /\ \E t1, t2 \in joined :
          /\ t1[1] = last.conn /\ t2[1] = last.conn
          /\ t1[2] = last.roomId /\ t2[2] # last.roomId
          /\ t1[4] # username[last.conn]
          /\ t2[4] = username[last.conn]
    /\ \E d \in BagToSet(sent) : d.data.senderName = username[last.conn]

(* ---- C12 --------------------------------------------------------------- *)
\* the upload in last' was stored and names a room
SharedUpload(e) == e.op = "upload" /\ e.status = "200" /\ e.roomId # Undefined

\* what a stored upload naming a room delivers: one file-shared to every
\* member of the room, the uploader included, with the descriptor of the stored
\* file, senderId and tempId as sent, and as senderName the uploader's display
\* name while it is connected, the placeholder once it is not
FileBroadcast ==
    LET e == last'
        name == IF e.senderId \in sockets THEN username[e.senderId] ELSE "A user"
        k == CHOOSE i \in 1..Len(FileNames) : FileNames[i] = e.filename
    IN sent' = Once({Delivery(x, "file-shared",
                        [Blank EXCEPT !.filename = e.filename,
                                      !.originalname = "a.png",
                                      !.mimetype = "image/png",
                                      !.size = "1024",
                                      !.path = FilePaths[k],
                                      !.senderId = e.senderId,
                                      !.senderName = name,
                                      !.tempId = e.tempId])
                        : x \in rooms[e.roomId]})

\* C12: a stored upload naming a room and an originating connection dispatches
\* file-shared to every current member of the room (uploader included), with
\* senderName the originating connection's display name when it is still
\* connected and the placeholder 'A user' when it is not; senderName is never
\* undefined.
C12_FileSharedSenderName ==
    [][ SharedUpload(last') =>
            /\ FileBroadcast
            /\ \A d \in BagToSet(sent') : d.data.senderName # Undefined
      ]_vars

(* ---- C13 --------------------------------------------------------------- *)
\* the events that are addressed to a room by its id
RoomEvents == {"chat-message", "typing", "read-receipt", "file-shared"}

\* C13: no event is delivered through a room that has no Directory entry when
\* it is dispatched: a chat-message, typing, read-receipt or file-shared
\* addressed to a room id absent from the Directory reaches no connection.
C13_NoDeliveryThroughUnregistered ==
    [][ \A d \in BagToSet(sent') :
            d.ev \in RoomEvents => activeRooms[last'.roomId] # Undefined
      ]_vars

(* ---- C14 --------------------------------------------------------------- *)
\* the file names of a run
Files == {FileNames[i] : i \in 1..Len(FileNames)}

\* C14: every stored upload (status 200) has exactly one deletion scheduled,
\* with or without a roomId, which eventually fires whatever connections do in
\* the meantime; no event cancels or duplicates it; an upload answered with 400
\* or 500 schedules none and dispatches no file-shared.  A deletion leaves the
\* pending ones only by firing (second conjunct), and every file is eventually
\* not pending any more (third conjunct).
C14_OneDeletionPerUpload ==
    /\ [](\A f \in Files : CopiesIn(f, timers) + CopiesIn(f, unlinks) <= 1)
    /\ [][ /\ (last'.op = "upload" /\ last'.status = "200") =>
                 /\ ~BagIn(last'.filename, timers) /\ ~BagIn(last'.filename, unlinks)
                 /\ timers' = timers (+) SetToBag({last'.filename})
                 /\ unlinks' = unlinks
           /\ (last'.op = "upload" /\ last'.status # "200") =>
                 /\ timers' = timers /\ unlinks' = unlinks
                 /\ sent' = EmptyBag
           /\ last'.op = "timeout" =>
                 /\ BagIn(last'.filename, timers)
                 /\ timers' = timers (-) SetToBag({last'.filename})
                 /\ unlinks' = unlinks (+) SetToBag({last'.filename})
           /\ last'.op \notin {"upload", "timeout"} =>
                 timers' = timers /\ unlinks' = unlinks
         ]_vars
    /\ \A f \in Files : <>[](~BagIn(f, timers))

\* the deletion of a file uploaded without roomId, by a connection that has
\* disconnected since, has fired while another deletion is pending
C14_Witness ==
    /\ last.op = "timeout"
    /\ BagIn(last.filename, unlinks)
    /\ \E f \in Files : BagIn(f, timers)
    /\ \E c \in SeenConns : c \notin sockets

(* ---- C15 --------------------------------------------------------------- *)
\* C15: after connection X's disconnect has been processed X is a member of no
\* room; exactly the rooms whose sole member was X are unregistered; every
\* other room keeps its registration and kind and has its previous member set
\* minus X; no other connection's memberships or display name change.
C15_DisconnectFrame ==
    [][ last'.op = "disconnecting" =>
            LET x == last'.conn
            IN /\ \A r \in RoomIds :
                     /\ x \notin rooms'[r]
                     /\ rooms'[r] = rooms[r] \ {x}
                     /\ IF rooms[r] = {x}
                        THEN activeRooms'[r] = Undefined
                        ELSE activeRooms'[r] = activeRooms[r]
               /\ \A a \in Conns \ {x} : username'[a] = username[a]
               /\ sockets' = sockets \ {x}
      ]_vars

(* ---- C16 --------------------------------------------------------------- *)
\* the kind a create-*-room event registers; Undefined for any other event
CreatedKind(e) ==
    IF e.op = "create-private-room" THEN "private"
    ELSE IF e.op = "create-group-room" THEN "group" ELSE Undefined

\* C16: in the strict variant a join-room for an unregistered room id is
\* answered with room-not-found to the requester only and leaves the Directory
\* and all member sets unchanged; a room gets registered only by
\* create-private-room / create-group-room, which registers one generated id
\* with the corresponding kind, makes the creator its first member and tells
\* the creator the id.
C16_StrictRoomsOnlyByCreate ==
    [][ strict =>
          /\ (last'.op = "join-room" /\ activeRooms[last'.roomId] = Undefined) =>
                /\ sent' = Once({Delivery(last'.conn, "room-not-found", Blank)})
                /\ activeRooms' = activeRooms
                /\ rooms' = rooms
          /\ \A r \in RoomIds :
                (activeRooms[r] = Undefined /\ activeRooms'[r] # Undefined) =>
                   /\ CreatedKind(last') # Undefined
                   /\ activeRooms'[r] = CreatedKind(last')
                   /\ rooms[r] = {} /\ rooms'[r] = {last'.conn}
                   /\ sent' = Once({Delivery(last'.conn, "room-created",
                                             [Blank EXCEPT !.roomId = r])})
                   /\ \A q \in RoomIds \ {r} :
                         activeRooms'[q] = activeRooms[q] /\ rooms'[q] = rooms[q]
      ]_vars

\* a join-room for an unregistered id was just answered with room-not-found
\* while another room, made by create-*-room, is registered with its creator
\* inside
C16_Witness ==
    /\ strict
    /\ last.op = "join-room"
    /\ activeRooms[last.roomId] = Undefined
    /\ \E d \in BagToSet(sent) : d.ev = "room-not-found" /\ d.to = last.conn
    /\ \E r \in NamedRooms : activeRooms[r] # Undefined /\ rooms[r] # {}

(* ---- C17 --------------------------------------------------------------- *)
\* the last event was a chat-message or typing sent by a member of the room
MemberTalk(e) ==
    /\ e.op \in {"chat-message", "typing"}
    /\ e.conn \in rooms[e.roomId]

\* no event comes from a connection after its user-left: user-left is emitted
\* by the disconnecting step only, the connection is gone after it, a gone
\* connection never comes back, and only live connections send
NothingAfterUserLeft ==
    /\ (\E d \in BagToSet(sent') : d.ev = "user-left") => last'.op = "disconnecting"
    /\ last'.op = "disconnecting" => last'.conn \notin sockets'
    /\ \A c \in SeenConns \ sockets : c \notin sockets'
    /\ last'.op \in {"chat-message", "typing"} => last'.conn \in sockets'

C18_OutsiderReachesNoOne ==
    [][ ( /\ last'.op \in {"chat-message", "typing", "message-seen"}
          /\ last'.conn \notin rooms[last'.roomId] )
        => sent' = EmptyBag
      ]_vars

(* ---- C19 --------------------------------------------------------------- *)
\* C19: once a connection has received join-success or room-created for room
\* r, it is a member of r and r is registered with the kind it had at that
\* join in every later state until the connection disconnects.  joined holds
\* the accepted joins of the live connections: an entry is made by every step
\* that delivers join-success or room-created (third conjunct), leaves only
\* when its connection disconnects or joins the same room again (second), and
\* while it is there the membership and the kind stand (first).
C19_JoinStands ==
    /\ [](\A t \in joined :
             /\ t[1] \in sockets
             /\ t[1] \in rooms[t[2]]
             /\ activeRooms[t[2]] = t[3])
    /\ [][ /\ \A t \in joined \ joined' :
                 \/ last'.op = "disconnecting" /\ last'.conn = t[1]
                 \/ /\ last'.op = "join-room" /\ last'.conn = t[1] /\ last'.roomId = t[2]
                    /\ \E u \in joined' : u[1] = t[1] /\ u[2] = t[2] /\ u[3] = t[3]
           /\ \A d \in BagToSet(sent') :
                 d.ev \in {"join-success", "room-created"} =>
                    \E t \in joined' :
                       /\ t[1] = d.to /\ t[2] = d.data.roomId
                       /\ t[3] = activeRooms'[t[2]]
         ]_vars

\* another member of the room a connection joined has just disconnected (the
\* one left behind got its user-left) and the join still stands
C19_Witness ==
    /\ last.op = "disconnecting"
    /\ \E t \in joined :
          /\ t[2] \in NamedRooms
          /\ rooms[t[2]] = {t[1]}
          /\ \E d \in BagToSet(sent) : d.ev = "user-left" /\ d.to = t[1]

(* ---- C20 --------------------------------------------------------------- *)
\* C20: a join-room by a connection that is already a member of room r,
\* accepted or rejected, leaves r's member set (hence its member count) and
\* its registered kind exactly as they were and keeps the connection in r.
C20_RepeatJoinIdempotent ==
    [][ (last'.op = "join-room" /\ last'.conn \in rooms[last'.roomId]) =>
            LET r == last'.roomId
            IN /\ rooms'[r] = rooms[r]
               /\ Cardinality(rooms'[r]) = Cardinality(rooms[r])
               /\ activeRooms'[r] = activeRooms[r]
               /\ last'.conn \in rooms'[r]
      ]_vars
====
